---------------------------- MODULE Spec2Model ----------------------------
(***************************************************************************)
(* Model of demo/query.py: five parameterised Cypher queries run against a *)
(* property graph (Person, City, State, Country, Interest nodes; LIVES_IN, *)
(* CITY_IN, STATE_IN, HAS_INTEREST, FOLLOWS relationships), each printed   *)
(* with its SQL equivalent, and main, which runs them in one session.      *)
(*                                                                         *)
(* A database is a record                                                  *)
(*   person   : id -> [age, gender]      city    : id -> [city, country]   *)
(*   state    : id -> [state, country]   country : id -> [country]         *)
(*   interest : id -> [interest]                                           *)
(*   rels     : sequence of [type, src, dst]; a relationship's identity is *)
(*              its index, a node reference is <<label, id>>.              *)
(* Strings that go through tolower() are sequences of one-letter strings;  *)
(* strings that are only compared for equality are TLA+ strings.           *)
(* Every node has one label and all the properties its label carries;     *)
(* avg() is the exact quotient.  Where ORDER BY leaves rows tied, every    *)
(* order of the tied rows is a possible result.                            *)
(***************************************************************************)
EXTENDS Integers, Sequences, FiniteSets, TLC

VARIABLES db, calls, pc, driver, session, timer, out, events, exc

vars == <<db, calls, pc, driver, session, timer, out, events, exc>>

-----------------------------------------------------------------------------
(* Bounds of the datasets the queries are checked on. *)
MaxFollows == 2
MaxPersons == 2

-----------------------------------------------------------------------------
(* Generic helpers. *)
Range(s) == {s[i] : i \in DOMAIN s}

SeqsUpTo(S, n) == UNION {[1..k -> S] : k \in 0..n}

RECURSIVE SetToSeq(_)
SetToSeq(S) ==
    IF S = {} THEN <<>>
    ELSE LET x == CHOOSE y \in S : TRUE IN <<x>> \o SetToSeq(S \ {x})

-----------------------------------------------------------------------------
(* Cypher's tolower(): letter by letter, upper case to lower case. *)
Uppers == <<"A", "B", "C", "D", "E", "F", "G", "H", "I", "J", "K", "L", "M",
            "N", "O", "P", "Q", "R", "S", "T", "U", "V", "W", "X", "Y", "Z">>
Lowers == <<"a", "b", "c", "d", "e", "f", "g", "h", "i", "j", "k", "l", "m",
            "n", "o", "p", "q", "r", "s", "t", "u", "v", "w", "x", "y", "z">>

UpperToLower ==
    [c \in Range(Uppers) |-> Lowers[CHOOSE i \in DOMAIN Uppers : Uppers[i] = c]]

LowerChar(c) == IF c \in DOMAIN UpperToLower THEN UpperToLower[c] ELSE c

tolower(s) == [i \in DOMAIN s |-> LowerChar(s[i])]

-----------------------------------------------------------------------------
(* Graph access. *)
Label(ref) == ref[1]
Id(ref) == ref[2]

RelsOfType(d, type) == {r \in DOMAIN d.rels : d.rels[r].type = type}

Src(d, r) == d.rels[r].src
Dst(d, r) == d.rels[r].dst

(* (a:L1)-[r:type]->(b:L2) *)
Hop(d, r, l1, type, l2) ==
    /\ d.rels[r].type = type
    /\ Label(Src(d, r)) = l1
    /\ Label(Dst(d, r)) = l2


-----------------------------------------------------------------------------
(* What one run_query call does: it prints the Cypher text and (where the  *)
(* function does so) the SQL text, runs the query on the session, builds a *)
(* frame from the rows and prints the summary.  session.run raises when    *)
(* the driver fails; pl.from_dicts on an empty row list either raises      *)
(* NoDataError or yields a zero-row frame, depending on the polars build.  *)
(* An outcome records the lines printed, the exception raised ("none" when *)
(* the call returns) and the frame returned.                               *)
Outcome(prints, e, rows) == [prints |-> prints, exc |-> e, ret |-> rows]

from_dicts(rows) ==
    IF rows = <<>> THEN {[exc |-> "NoDataError", frame |-> <<>>],
                         [exc |-> "none", frame |-> <<>>]}
    ELSE {[exc |-> "none", frame |-> rows]}

RunQuery(k, header, responses) ==
    {Outcome(header, "DriverError", <<>>)}
    \cup {Outcome(IF f.exc = "none" THEN Append(header, <<"summary", k>>)
                                   ELSE header,
                  f.exc, f.frame) :
            f \in UNION {from_dicts(rows) : rows \in responses}}

Returned(o) == o.exc = "none"

-----------------------------------------------------------------------------
(* Query 5: MATCH (a:Person)-[r1:FOLLOWS]->(b:Person)-[r2:FOLLOWS]->(c:Person) *)
(* RETURN count of all rows.  One pattern never binds one relationship twice.       *)
Query5MatchesNoJoin(d) ==
    {m \in RelsOfType(d, "FOLLOWS") \X RelsOfType(d, "FOLLOWS") :
        /\ Hop(d, m[1], "Person", "FOLLOWS", "Person")
        /\ Hop(d, m[2], "Person", "FOLLOWS", "Person")
        /\ m[1] # m[2]}

Query5Matches(d) ==
    {m \in RelsOfType(d, "FOLLOWS") \X RelsOfType(d, "FOLLOWS") :
        /\ Hop(d, m[1], "Person", "FOLLOWS", "Person")
        /\ Hop(d, m[2], "Person", "FOLLOWS", "Person")
        /\ Dst(d, m[1]) = Src(d, m[2])
        /\ m[1] # m[2]}

Query5(d) == {<<[numPaths |-> Cardinality(Query5Matches(d))]>>}

(* The SQL text of run_query5: the Follows table holds one row per FOLLOWS *)
(* relationship between persons, joined with itself on                     *)
(* r1.followee_id = r2.follower_id.                                        *)
FollowsTable(d) ==
    {r \in RelsOfType(d, "FOLLOWS") : Hop(d, r, "Person", "FOLLOWS", "Person")}

Sql5(d) ==
    Cardinality({m \in FollowsTable(d) \X FollowsTable(d) :
                    Dst(d, m[1]) = Src(d, m[2])})

run_query5(d) ==
    RunQuery(5, <<<<"cypher", 5>>, <<"sql", 5>>>>, Query5(d))

-----------------------------------------------------------------------------
(* ORDER BY ... LIMIT k: the first k rows of some ordering of the rows that *)
(* respects the sort key.  rank[x] is the number of rows that sort strictly *)
(* before x; rows with equal rank tie, and the engine may emit tied rows in *)
(* any order.                                                              *)
RECURSIVE LimitUnordered(_, _, _)
LimitUnordered(S, rank, k) ==
    IF k = 0 \/ S = {} THEN {<<>>}
    ELSE UNION {{<<x>> \o t : t \in LimitUnordered(S \ {x}, rank, k - 1)} :
                  x \in S}

RECURSIVE OrderLimit(_, _, _)
OrderLimit(S, rank, k) ==
    IF k = 0 \/ S = {} THEN {<<>>}
    ELSE LET first == {x \in S : \A y \in S : rank[x] <= rank[y]}
         IN  UNION {{<<x>> \o t : t \in OrderLimit(S \ {x}, rank, k - 1)} :
                      x \in first}

-----------------------------------------------------------------------------
(* Query 3:                                                                *)
(*   MATCH (p:Person)-[:HAS_INTEREST]->(i:Interest)                        *)
(*   WHERE tolower(i.interest) = tolower($interest)                        *)
(*   AND tolower(p.gender) = tolower($gender)                              *)
(*   WITH p, i  MATCH (p)-[:LIVES_IN]->(c:City)                            *)
(*   WHERE c.city = $city AND c.country = $country                         *)
(*   RETURN count(p) AS numPersons                                         *)
Query3FilterRawArgs(d, r, gender, interest) ==
    /\ Hop(d, r, "Person", "HAS_INTEREST", "Interest")
    /\ tolower(d.interest[Id(Dst(d, r))].interest) = interest
    /\ tolower(d.person[Id(Src(d, r))].gender) = gender

Query3Filter(d, r, gender, interest) ==
    /\ Hop(d, r, "Person", "HAS_INTEREST", "Interest")
    /\ tolower(d.interest[Id(Dst(d, r))].interest) = tolower(interest)
    /\ tolower(d.person[Id(Src(d, r))].gender) = tolower(gender)

Query3Matches(d, gender, city, country, interest) ==
    {m \in RelsOfType(d, "HAS_INTEREST") \X RelsOfType(d, "LIVES_IN") :
        /\ Query3Filter(d, m[1], gender, interest)
        /\ Hop(d, m[2], "Person", "LIVES_IN", "City")
        /\ Src(d, m[2]) = Src(d, m[1])
        /\ d.city[Id(Dst(d, m[2]))].city = city
        /\ d.city[Id(Dst(d, m[2]))].country = country}

Query3(d, gender, city, country, interest) ==
    {<<[numPersons |->
          Cardinality(Query3Matches(d, gender, city, country, interest))]>>}

run_query3(d, gender, city, country, interest) ==
    RunQuery(3, <<<<"cypher", 3>>>>, Query3(d, gender, city, country, interest))

-----------------------------------------------------------------------------
(* Query 4:                                                                *)
(*   MATCH (p:Person)-[:LIVES_IN]->(:City)-[:CITY_IN]->(s:State)           *)
(*   WHERE p.age >= $age_lower AND p.age <= $age_upper                     *)
(*   AND s.country = $country                                              *)
(*   WITH p, s  MATCH (p)-[:HAS_INTEREST]->(i:Interest)                    *)
(*   WHERE tolower(i.interest) = tolower($interest)                        *)
(*   RETURN count(p) AS numPersons, s.state AS state, s.country AS country *)
(*   ORDER BY numPersons DESC LIMIT 1                                      *)
(* A match is <<LIVES_IN, CITY_IN, HAS_INTEREST>>; the rows are grouped by *)
(* the returned non-aggregated columns (state, country).                   *)
Query4Matches(d, country, age_lower, age_upper, interest) ==
    {m \in RelsOfType(d, "LIVES_IN") \X RelsOfType(d, "CITY_IN")
             \X RelsOfType(d, "HAS_INTEREST") :
        /\ Hop(d, m[1], "Person", "LIVES_IN", "City")
        /\ Hop(d, m[2], "City", "CITY_IN", "State")
        /\ Dst(d, m[1]) = Src(d, m[2])
        /\ d.person[Id(Src(d, m[1]))].age >= age_lower
        /\ d.person[Id(Src(d, m[1]))].age <= age_upper
        /\ d.state[Id(Dst(d, m[2]))].country = country
        /\ Hop(d, m[3], "Person", "HAS_INTEREST", "Interest")
        /\ Src(d, m[3]) = Src(d, m[1])
        /\ tolower(d.interest[Id(Dst(d, m[3]))].interest) = tolower(interest)}

Query4Key(d, m) ==
    <<d.state[Id(Dst(d, m[2]))].state, d.state[Id(Dst(d, m[2]))].country>>

Query4Groups(d, country, age_lower, age_upper, interest) ==
    LET M == Query4Matches(d, country, age_lower, age_upper, interest)
    IN  {[numPersons |-> Cardinality({m \in M : Query4Key(d, m) = key}),
          state |-> key[1], country |-> key[2]] :
            key \in {Query4Key(d, m) : m \in M}}

Query4Limit == 1

Query4(d, country, age_lower, age_upper, interest) ==
    LET G == Query4Groups(d, country, age_lower, age_upper, interest)
        rank == [x \in G |->
                   Cardinality({y \in G : y.numPersons > x.numPersons})]
    IN  OrderLimit(G, rank, Query4Limit)

run_query4(d, country, age_lower, age_upper, interest) ==
    RunQuery(4, <<<<"cypher", 4>>, <<"sql", 4>>>>,
             Query4(d, country, age_lower, age_upper, interest))

-----------------------------------------------------------------------------
(* -[*1..2]-> : the directed paths of one or two relationships of any type *)
(* that leave `from`; a path never uses one relationship twice.            *)
Outgoing(d, from) == {e \in DOMAIN d.rels : Src(d, e) = from}

VarLengthPaths(d, from) ==
    {<<e>> : e \in Outgoing(d, from)}
    \cup UNION {{<<e1, e2>> : e2 \in Outgoing(d, Dst(d, e1)) \ {e1}} :
                  e1 \in Outgoing(d, from)}

PathEnd(d, p) == Dst(d, p[Len(p)])

(* MATCH (p:Person)-[:LIVES_IN]->(c:City)-[*1..2]->(co:Country): a match is *)
(* <<LIVES_IN relationship, path>>.                                        *)
CountryMatches(d) ==
    {m \in UNION {{<<r, p>> : p \in VarLengthPaths(d, Dst(d, r))} :
                    r \in {x \in RelsOfType(d, "LIVES_IN") :
                             Hop(d, x, "Person", "LIVES_IN", "City")}} :
        /\ Label(PathEnd(d, m[2])) = "Country"
        /\ m[1] \notin Range(m[2])}

MatchAge(d, m) == d.person[Id(Src(d, m[1]))].age
MatchCity(d, m) == d.city[Id(Dst(d, m[1]))].city
MatchCountry(d, m) == d.country[Id(PathEnd(d, m[2]))].country

(* avg(): the exact quotient, as a fraction in lowest terms. *)
RECURSIVE Gcd(_, _)
Gcd(a, b) == IF b = 0 THEN a ELSE Gcd(b, a % b)

RECURSIVE SumAge(_, _)
SumAge(d, M) ==
    IF M = {} THEN 0
    ELSE LET m == CHOOSE x \in M : TRUE IN MatchAge(d, m) + SumAge(d, M \ {m})

Avg(d, M) ==
    LET s == SumAge(d, M)
        n == Cardinality(M)
        g == Gcd(s, n)
    IN  [num |-> s \div g, den |-> n \div g]

AvgLess(a, b) == a.num * b.den < b.num * a.den

(* Query 1:                                                                *)
(*   MATCH (p:Person)-[:LIVES_IN]->(c:City)-[*1..2]->(co:Country)          *)
(*   WHERE co.country = $country                                           *)
(*   RETURN c.city AS city, avg(p.age) AS averageAge                       *)
(*   ORDER BY averageAge LIMIT 5                                           *)
Query1MatchesAnyCountry(d, country) == CountryMatches(d)

Query1Matches(d, country) ==
    {m \in CountryMatches(d) : MatchCountry(d, m) = country}

Query1Groups(d, country) ==
    LET M == Query1Matches(d, country)
    IN  {[city |-> c, averageAge |-> Avg(d, {m \in M : MatchCity(d, m) = c})] :
            c \in {MatchCity(d, m) : m \in M}}

Query1Limit == 5

Query1(d, country) ==
    LET G == Query1Groups(d, country)
        rank == [x \in G |->
                   Cardinality({y \in G : AvgLess(y.averageAge, x.averageAge)})]
    IN  OrderLimit(G, rank, Query1Limit)

run_query1(d, country) ==
    RunQuery(1, <<<<"cypher", 1>>, <<"sql", 1>>>>, Query1(d, country))

(* Query 2:                                                                *)
(*   MATCH (p:Person)-[:LIVES_IN]->(ci:City)-[*1..2]->(country:Country)    *)
(*   WHERE p.age >= $age_lower AND p.age <= $age_upper                     *)
(*   RETURN country.country AS countries, count(country) AS personCounts   *)
(*   ORDER BY personCounts DESC LIMIT 3                                    *)
Query2MatchesNoUpper(d, age_lower, age_upper) ==
    {m \in CountryMatches(d) : MatchAge(d, m) >= age_lower}

Query2Matches(d, age_lower, age_upper) ==
    {m \in CountryMatches(d) :
        MatchAge(d, m) >= age_lower /\ MatchAge(d, m) <= age_upper}

Query2Groups(d, age_lower, age_upper) ==
    LET M == Query2Matches(d, age_lower, age_upper)
    IN  {[countries |-> c,
          personCounts |-> Cardinality({m \in M : MatchCountry(d, m) = c})] :
            c \in {MatchCountry(d, m) : m \in M}}

Query2Limit == 3

Query2(d, age_lower, age_upper) ==
    LET G == Query2Groups(d, age_lower, age_upper)
        rank == [x \in G |->
                   Cardinality({y \in G : y.personCounts > x.personCounts})]
    IN  OrderLimit(G, rank, Query2Limit)

run_query2(d, age_lower, age_upper) ==
    RunQuery(2, <<<<"cypher", 2>>, <<"sql", 2>>>>, Query2(d, age_lower, age_upper))

-----------------------------------------------------------------------------
(* Datasets.  A world is the geography and the interests; a dataset adds   *)
(* people (age, gender, the cities they live in, their interests) and      *)
(* FOLLOWS relationships.                                                  *)
Rel(type, src, dst) == [type |-> type, src |-> src, dst |-> dst]

PersonRels(people) ==
    SetToSeq(UNION {{Rel("LIVES_IN", <<"Person", i>>, <<"City", c>>) :
                        c \in people[i].cities}
                    \cup {Rel("HAS_INTEREST", <<"Person", i>>, <<"Interest", x>>) :
                            x \in people[i].interests} :
                    i \in DOMAIN people})

MkDb(world, people, follows) ==
    [person   |-> [i \in DOMAIN people |->
                     [age |-> people[i].age, gender |-> people[i].gender]],
     city     |-> world.city,
     state    |-> world.state,
     country  |-> world.country,
     interest |-> world.interest,
     rels     |-> world.rels \o PersonRels(people) \o follows]

Male == <<"M", "a", "l", "e">>
male == <<"m", "a", "l", "e">>
MALE == <<"M", "A", "L", "E">>
female == <<"f", "e", "m", "a", "l", "e">>
FineDining == <<"F", "i", "n", "e", " ", "D", "i", "n", "i", "n", "g">>
fine_dining == <<"f", "i", "n", "e", " ", "d", "i", "n", "i", "n", "g">>
photography == <<"p", "h", "o", "t", "o", "g", "r", "a", "p", "h", "y">>
PHOTOGRAPHY == <<"P", "H", "O", "T", "O", "G", "R", "A", "P", "H", "Y">>

(* The hierarchical world: every city in one state, every state in one     *)
(* country.                                                                *)
HierWorld ==
    [city     |-> <<[city |-> "New York", country |-> "United States"],
                    [city |-> "Austin", country |-> "United States"],
                    [city |-> "London", country |-> "United Kingdom"],
                    [city |-> "London", country |-> "Canada"]>>,
     state    |-> <<[state |-> "New York", country |-> "United States"],
                    [state |-> "Texas", country |-> "United States"],
                    [state |-> "England", country |-> "United Kingdom"],
                    [state |-> "Ontario", country |-> "Canada"]>>,
     country  |-> <<[country |-> "United States"],
                    [country |-> "United Kingdom"],
                    [country |-> "Canada"]>>,
     interest |-> <<[interest |-> FineDining], [interest |-> photography]>>,
     rels     |-> <<Rel("CITY_IN", <<"City", 1>>, <<"State", 1>>),
                    Rel("CITY_IN", <<"City", 2>>, <<"State", 2>>),
                    Rel("CITY_IN", <<"City", 3>>, <<"State", 3>>),
                    Rel("CITY_IN", <<"City", 4>>, <<"State", 4>>),
                    Rel("STATE_IN", <<"State", 1>>, <<"Country", 1>>),
                    Rel("STATE_IN", <<"State", 2>>, <<"Country", 1>>),
                    Rel("STATE_IN", <<"State", 3>>, <<"Country", 2>>),
                    Rel("STATE_IN", <<"State", 4>>, <<"Country", 3>>)>>]

Person(age, gender, cities, interests) ==
    [age |-> age, gender |-> gender, cities |-> cities, interests |-> interests]

(* People who each live in one city and have one interest. *)
HierPeople(ages, genders, cities, interests) ==
    SeqsUpTo({Person(a, g, {c}, {x}) :
                a \in ages, g \in genders, c \in cities, x \in interests},
             MaxPersons)

HierDbs(ages, genders, cities, interests) ==
    {MkDb(HierWorld, people, <<>>) :
        people \in HierPeople(ages, genders, cities, interests)}

-----------------------------------------------------------------------------
(* Calling the query functions.  A call record keeps the query number, the *)
(* arguments and the outcome; the calls of one behaviour run against the   *)
(* same, unchanged dataset.                                                *)
Invoke(q, d, a) ==
    CASE q = 1 -> run_query1(d, a.country)
      [] q = 2 -> run_query2(d, a.age_lower, a.age_upper)
      [] q = 3 -> run_query3(d, a.gender, a.city, a.country, a.interest)
      [] q = 4 -> run_query4(d, a.country, a.age_lower, a.age_upper, a.interest)
      [] q = 5 -> run_query5(d)

Args1(countries) == {[country |-> c] : c \in countries}

Args2(ages) ==
    {a \in [age_lower : ages, age_upper : ages] : a.age_lower <= a.age_upper}

Args3 ==
    [gender : {male, MALE, female}, city : {"London"},
     country : {"United Kingdom", "Canada"}, interest : {fine_dining, FineDining}]

Args4 ==
    [country : {"United States", "United Kingdom"}, age_lower : {23},
     age_upper : {30, 31}, interest : {photography, PHOTOGRAPHY}]

Args5 == {[none |-> TRUE]}

QueryArgs(q) ==
    CASE q = 1 -> Args1({"United States", "United Kingdom"})
      [] q = 2 -> Args2({30, 40})
      [] q = 3 -> Args3
      [] q = 4 -> Args4
      [] q = 5 -> Args5

(* Arguments that differ from a at most in the letter case of gender and   *)
(* interest (query 3), and a itself for the other queries.                 *)
SameUpToCase(q, a) ==
    IF q = 3
    THEN {b \in Args3 : /\ b.city = a.city
                        /\ b.country = a.country
                        /\ tolower(b.gender) = tolower(a.gender)
                        /\ tolower(b.interest) = tolower(a.interest)}
    ELSE {a}

FirstCall(q) ==
    /\ pc = "first"
    /\ \E a \in QueryArgs(q) : \E o \in Invoke(q, db, a) :
          /\ calls' = <<[q |-> q, args |-> a, o |-> o]>>
          /\ out' = out \o o.prints
          /\ exc' = o.exc
          /\ pc' = IF Returned(o) THEN "second" ELSE "raised"
    /\ UNCHANGED <<db, driver, session, timer, events>>

SecondCall ==
    /\ pc = "second"
    /\ \E a \in SameUpToCase(calls[1].q, calls[1].args) :
       \E o \in Invoke(calls[1].q, db, a) :
          /\ calls' = Append(calls, [q |-> calls[1].q, args |-> a, o |-> o])
          /\ out' = out \o o.prints
          /\ exc' = o.exc
          /\ pc' = IF Returned(o) THEN "finished" ELSE "raised"
    /\ UNCHANGED <<db, driver, session, timer, events>>

InitCalls ==
    /\ calls = <<>>
    /\ pc = "first"
    /\ driver = "open"
    /\ session = "open"
    /\ timer = "idle"
    /\ out = <<>>
    /\ events = <<>>
    /\ exc = "none"

-----------------------------------------------------------------------------
(* Query 3 on hierarchical datasets, called twice with arguments that      *)
(* differ at most in letter case.                                          *)
InitQ3 ==
    /\ db \in HierDbs({30}, {Male, female}, {3, 4}, {1, 2})
    /\ InitCalls

NextQ3 == FirstCall(3) \/ SecondCall

SpecQ3 == InitQ3 /\ [][NextQ3]_vars

-----------------------------------------------------------------------------
(* Query 5 on FOLLOWS graphs: up to MaxFollows relationships (parallel     *)
(* ones and self-follows included) among MaxFollowers persons and a city.  *)
MaxFollowers == 3

FollowEnds == {<<"Person", i>> : i \in 1..MaxFollowers} \cup {<<"City", 1>>}

FollowsDbs ==
    {MkDb(HierWorld, [i \in 1..MaxFollowers |-> Person(30, male, {}, {})], f) :
        f \in SeqsUpTo({Rel("FOLLOWS", a, b) : a \in FollowEnds, b \in FollowEnds},
                       MaxFollows)}

InitQ5 ==
    /\ db \in FollowsDbs
    /\ InitCalls

NextQ5 == FirstCall(5)

SpecQ5 == InitQ5 /\ [][NextQ5]_vars

-----------------------------------------------------------------------------
(* Query 4 on hierarchical datasets. *)
InitQ4 ==
    /\ db \in HierDbs({23, 31}, {male}, {1, 2, 3}, {1, 2})
    /\ InitCalls

NextQ4 == FirstCall(4)

SpecQ4 == InitQ4 /\ [][NextQ4]_vars

-----------------------------------------------------------------------------
(* Any of the five queries, called twice with the same arguments, on       *)
(* hierarchical datasets with a few FOLLOWS relationships.                 *)
FollowPatterns(people) ==
    IF people = <<>> THEN {<<>>}
    ELSE {<<>>,
          <<Rel("FOLLOWS", <<"Person", 1>>, <<"Person", 1>>)>>,
          <<Rel("FOLLOWS", <<"Person", 1>>, <<"Person", Len(people)>>),
            Rel("FOLLOWS", <<"Person", Len(people)>>, <<"Person", 1>>)>>}

InitTwice ==
    /\ db \in UNION {{MkDb(HierWorld, people, f) : f \in FollowPatterns(people)} :
                      people \in HierPeople({23, 35}, {male}, {1, 2}, {2})}
    /\ InitCalls

NextTwice == (\E q \in 1..5 : FirstCall(q)) \/ SecondCall

SpecTwice == InitTwice /\ [][NextTwice]_vars

-----------------------------------------------------------------------------
(* Free datasets: any subset of four geography relationships (a city in a  *)
(* state, the state in a country, the same city directly in that country,  *)
(* a second city of the same name directly in another country), and people *)
(* who live in none, one or both of the cities.                            *)
FreeGeoRels ==
    {Rel("CITY_IN", <<"City", 1>>, <<"State", 1>>),
     Rel("STATE_IN", <<"State", 1>>, <<"Country", 1>>),
     Rel("CITY_IN", <<"City", 1>>, <<"Country", 1>>),
     Rel("CITY_IN", <<"City", 2>>, <<"Country", 2>>)}

FreeWorld(E) ==
    [city     |-> <<[city |-> "Boston", country |-> "United States"],
                    [city |-> "Boston", country |-> "United Kingdom"]>>,
     state    |-> <<[state |-> "Massachusetts", country |-> "United States"]>>,
     country  |-> <<[country |-> "United States"], [country |-> "United Kingdom"]>>,
     interest |-> <<>>,
     rels     |-> SetToSeq(E)]

FreeDbs ==
    {MkDb(FreeWorld(E), people, <<>>) :
        E \in SUBSET FreeGeoRels,
        people \in SeqsUpTo({Person(a, male, C, {}) :
                               a \in {30, 41}, C \in SUBSET {1, 2}}, MaxPersons)}

(* Wide datasets: hierarchical, city i in its own state i; plan[i] gives   *)
(* the country of that state and the ages of the city's residents.         *)
CityNames == <<"Austin", "Boston", "Chicago", "Denver", "El Paso", "Fresno",
               "Glendale", "Houston">>
CountryNames == <<"United States", "United Kingdom", "Canada", "France",
                  "Germany", "India">>

RECURSIVE Residents(_, _)
Residents(plan, i) ==
    IF i > Len(plan) THEN <<>>
    ELSE [k \in DOMAIN plan[i].ages |->
            Person(plan[i].ages[k], male, {i}, {})] \o Residents(plan, i + 1)

WideWorld(plan) ==
    [city     |-> [i \in DOMAIN plan |->
                     [city |-> CityNames[i],
                      country |-> CountryNames[plan[i].country]]],
     state    |-> [i \in DOMAIN plan |->
                     [state |-> CityNames[i],
                      country |-> CountryNames[plan[i].country]]],
     country  |-> [k \in DOMAIN CountryNames |-> [country |-> CountryNames[k]]],
     interest |-> <<>>,
     rels     |-> [i \in DOMAIN plan |-> Rel("CITY_IN", <<"City", i>>, <<"State", i>>)]
                  \o [i \in DOMAIN plan |->
                        Rel("STATE_IN", <<"State", i>>, <<"Country", plan[i].country>>)]]

WideDb(plan) == MkDb(WideWorld(plan), Residents(plan, 1), <<>>)

-----------------------------------------------------------------------------
(* Query 1 on the free datasets and on wide datasets of MaxCities cities,  *)
(* each in one of two countries and with one resident, whose age rises     *)
(* with the city's number, falls with it, or alternates.                   *)
MaxCities == 6

AgePatterns ==
    {[i \in 1..MaxCities |-> 20 + i],
     [i \in 1..MaxCities |-> 40 - i],
     [i \in 1..MaxCities |-> IF i % 2 = 1 THEN 20 + i ELSE 40 - i]}

CityPlans ==
    {[i \in 1..MaxCities |-> [country |-> c[i], ages |-> <<age[i]>>]] :
        c \in [1..MaxCities -> {1, 2}], age \in AgePatterns}

InitQ1 ==
    /\ db \in FreeDbs \cup {WideDb(plan) : plan \in CityPlans}
    /\ InitCalls

NextQ1 == FirstCall(1)

SpecQ1 == InitQ1 /\ [][NextQ1]_vars

-----------------------------------------------------------------------------
(* Query 2 on the free datasets and on wide datasets of MaxCountries       *)
(* countries with one city each and up to two residents per city.          *)
MaxCountries == 4

CountryPlans ==
    [1..MaxCountries -> {<<>>, <<30>>, <<30, 40>>, <<30, 41>>}]

InitQ2 ==
    /\ db \in FreeDbs
              \cup {WideDb([i \in 1..MaxCountries |->
                              [country |-> i, ages |-> ages[i]]]) :
                       ages \in CountryPlans}
    /\ InitCalls

NextQ2 == FirstCall(2)

SpecQ2 == InitQ2 /\ [][NextQ2]_vars

-----------------------------------------------------------------------------
(* main: the driver, the session and the timer are context managers        *)
(* entered in that order; the five queries run inside them with the fixed  *)
(* arguments; whatever a query raises leaves the three with-blocks, each   *)
(* of which releases its resource, and then leaves main.                   *)
QueryPc == <<"q1", "q2", "q3", "q4", "q5">>

MainArgs(k) ==
    CASE k = 1 -> [country |-> "United States"]
      [] k = 2 -> [age_lower |-> 30, age_upper |-> 40]
      [] k = 3 -> [gender |-> male, city |-> "London",
                   country |-> "United Kingdom", interest |-> fine_dining]
      [] k = 4 -> [country |-> "United States", age_lower |-> 23,
                   age_upper |-> 30, interest |-> photography]
      [] k = 5 -> [none |-> TRUE]

Event(e, k) == [e |-> e, k |-> k]

(* Where control goes when something raises at `where`: out of the        *)
(* with-blocks entered so far, innermost first.                            *)
OnRaiseLeaks(where) == "done"

OnRaise(where) ==
    CASE where = "driver" -> "done"
      [] where = "session" -> "driver_exit"
      [] where = "query" -> "timer_exit"

MainQueryNextSwallow(k, e) ==
    IF k < Len(QueryPc) THEN QueryPc[k + 1] ELSE "timer_exit"

MainQueryNext(k, e) ==
    IF e = "none"
    THEN IF k < Len(QueryPc) THEN QueryPc[k + 1] ELSE "timer_exit"
    ELSE OnRaise("query")

AcquireDriver ==
    /\ pc = "start"
    /\ \/ /\ driver' = "open"
          /\ events' = Append(events, Event("driver.acquire", 0))
          /\ pc' = "session"
          /\ exc' = exc
       \/ /\ exc' = "DriverError"
          /\ pc' = OnRaise("driver")
          /\ UNCHANGED <<driver, events>>
    /\ UNCHANGED <<db, calls, session, timer, out>>

AcquireSession ==
    /\ pc = "session"
    /\ \/ /\ session' = "open"
          /\ events' = Append(events, Event("session.acquire", 0))
          /\ pc' = "timer"
          /\ exc' = exc
       \/ /\ exc' = "DriverError"
          /\ pc' = OnRaise("session")
          /\ UNCHANGED <<session, events>>
    /\ UNCHANGED <<db, calls, driver, timer, out>>

TimerStart ==
    /\ pc = "timer"
    /\ timer' = "running"
    /\ pc' = QueryPc[1]
    /\ UNCHANGED <<db, calls, driver, session, out, events, exc>>

MainQuery(k) ==
    /\ pc = QueryPc[k]
    /\ \E o \in Invoke(k, db, MainArgs(k)) :
          /\ calls' = Append(calls, [q |-> k, args |-> MainArgs(k), o |-> o])
          /\ events' = Append(events, Event("query", k))
          /\ out' = out \o o.prints
          /\ exc' = o.exc
          /\ pc' = MainQueryNext(k, o.exc)
    /\ UNCHANGED <<db, driver, session, timer>>

TimerStop ==
    /\ pc = "timer_exit"
    /\ timer' = "stopped"
    /\ out' = Append(out, <<"timer", 0>>)
    /\ pc' = "session_exit"
    /\ UNCHANGED <<db, calls, driver, session, events, exc>>

SessionClose ==
    /\ pc = "session_exit"
    /\ session' = "closed"
    /\ events' = Append(events, Event("session.release", 0))
    /\ pc' = "driver_exit"
    /\ UNCHANGED <<db, calls, driver, timer, out, exc>>

DriverClose ==
    /\ pc = "driver_exit"
    /\ driver' = "closed"
    /\ events' = Append(events, Event("driver.release", 0))
    /\ pc' = "done"
    /\ UNCHANGED <<db, calls, session, timer, out, exc>>

Init ==
    /\ db \in HierDbs({23, 35}, {male}, {1, 3}, {1, 2})
    /\ calls = <<>>
    /\ pc = "start"
    /\ driver = "none"
    /\ session = "none"
    /\ timer = "idle"
    /\ out = <<>>
    /\ events = <<>>
    /\ exc = "none"

Next ==
    \/ AcquireDriver
    \/ AcquireSession
    \/ TimerStart
    \/ \E k \in DOMAIN QueryPc : MainQuery(k)
    \/ TimerStop
    \/ SessionClose
    \/ DriverClose

Spec == Init /\ [][Next]_vars

-----------------------------------------------------------------------------
(* Shorthands for the properties. *)
Called(i) == i \in DOMAIN calls
Ret(i) == calls[i].o.ret
Arg(i) == calls[i].args
CallReturned(i) == Called(i) /\ Returned(calls[i].o)

-----------------------------------------------------------------------------
(* C3: two run_query3 calls on the same dataset whose arguments have the   *)
(* same city and country and differ at most in the letter case of gender   *)
(* and interest return the same numPersons, each in a single-row result.   *)
Query3CaseInsensitive ==
    \A i \in DOMAIN calls : \A j \in DOMAIN calls :
        (/\ CallReturned(i) /\ CallReturned(j)
         /\ calls[i].q = 3 /\ calls[j].q = 3
         /\ Arg(i).city = Arg(j).city /\ Arg(i).country = Arg(j).country
         /\ tolower(Arg(i).gender) = tolower(Arg(j).gender)
         /\ tolower(Arg(i).interest) = tolower(Arg(j).interest))
        => /\ Len(Ret(i)) = 1 /\ Len(Ret(j)) = 1
           /\ Ret(i)[1].numPersons = Ret(j)[1].numPersons

(* C3 witness: MALE / Fine Dining and male / fine dining both count the   *)
(* same two persons.                                                       *)
Query3CaseInsensitiveWitness ==
    /\ CallReturned(1) /\ CallReturned(2)
    /\ Arg(1).gender = MALE /\ Arg(2).gender = male
    /\ Arg(1).interest = FineDining /\ Arg(2).interest = fine_dining
    /\ Ret(1)[1].numPersons = 2
    /\ Ret(2)[1].numPersons = 2

-----------------------------------------------------------------------------
(* C4: run_query5 returns one row whose numPaths is the number of pairs of *)
(* distinct FOLLOWS relationships a->b, b->c between persons: 0 when the   *)
(* graph has no FOLLOWS relationship, 1 on a simple chain A->B->C of three *)
(* distinct persons.                                                       *)
IsFollows(r) ==
    /\ db.rels[r].type = "FOLLOWS"
    /\ db.rels[r].src[1] = "Person"
    /\ db.rels[r].dst[1] = "Person"

ChainCount ==
    Cardinality({c \in (DOMAIN db.rels) \X (DOMAIN db.rels) :
                    /\ c[1] # c[2]
                    /\ IsFollows(c[1]) /\ IsFollows(c[2])
                    /\ db.rels[c[1]].dst = db.rels[c[2]].src})

NoFollows == \A r \in DOMAIN db.rels : db.rels[r].type # "FOLLOWS"

SimpleChain ==
    \E r1 \in DOMAIN db.rels : \E r2 \in DOMAIN db.rels :
        /\ IsFollows(r1) /\ IsFollows(r2)
        /\ \A r \in DOMAIN db.rels : db.rels[r].type = "FOLLOWS" => r \in {r1, r2}
        /\ db.rels[r1].dst = db.rels[r2].src
        /\ db.rels[r1].src # db.rels[r1].dst
        /\ db.rels[r2].src # db.rels[r2].dst
        /\ db.rels[r1].src # db.rels[r2].dst

(* C4: one row; numPaths is the chain count, 0 without FOLLOWS, 1 on a    *)
(* simple chain.                                                           *)
Query5CountsChains ==
    (CallReturned(1) /\ calls[1].q = 5)
    => /\ Len(Ret(1)) = 1
       /\ Ret(1)[1].numPaths = ChainCount
       /\ NoFollows => Ret(1)[1].numPaths = 0
       /\ SimpleChain => Ret(1)[1].numPaths = 1

(* C4 witness: run_query5 returned 1 on a simple chain A->B->C. *)
Query5CountsChainsWitness ==
    /\ CallReturned(1) /\ calls[1].q = 5
    /\ SimpleChain
    /\ Ret(1)[1].numPaths = 1

-----------------------------------------------------------------------------
(* C10: the SQL statement run_query5 prints as the equivalent of its       *)
(* Cypher query computes the numPaths the Cypher query returns.            *)
Query5SqlEquivalent ==
    (CallReturned(1) /\ calls[1].q = 5) => Ret(1)[1].numPaths = Sql5(db)

-----------------------------------------------------------------------------
(* C5: run_query1 returns at most 5 rows, sorted ascending by averageAge,  *)
(* and every returned city is the name of a City node from which a path of *)
(* one or two relationships leads to a Country node whose country is the   *)
(* argument.                                                               *)
Reaches(a, b) ==
    \/ \E e \in DOMAIN db.rels : db.rels[e].src = a /\ db.rels[e].dst = b
    \/ \E e1 \in DOMAIN db.rels : \E e2 \in DOMAIN db.rels :
          /\ e1 # e2
          /\ db.rels[e1].src = a
          /\ db.rels[e1].dst = db.rels[e2].src
          /\ db.rels[e2].dst = b

CityResolves(name, country) ==
    \E c \in DOMAIN db.city : \E k \in DOMAIN db.country :
        /\ db.city[c].city = name
        /\ db.country[k].country = country
        /\ Reaches(<<"City", c>>, <<"Country", k>>)

(* C5: at most 5 rows, ascending averageAge, every city resolves to the    *)
(* requested country.                                                      *)
Query1LowestAverageAge ==
    (CallReturned(1) /\ calls[1].q = 1)
    => /\ Len(Ret(1)) <= 5
       /\ \A i \in DOMAIN Ret(1) : \A j \in DOMAIN Ret(1) :
             i < j => Ret(1)[i].averageAge.num * Ret(1)[j].averageAge.den
                        <= Ret(1)[j].averageAge.num * Ret(1)[i].averageAge.den
       /\ \A i \in DOMAIN Ret(1) : CityResolves(Ret(1)[i].city, Arg(1).country)

(* C5 witness: more than 5 cities qualify and 5 rows are returned. *)
Query1LowestAverageAgeWitness ==
    /\ CallReturned(1) /\ calls[1].q = 1
    /\ Len(Ret(1)) = 5
    /\ Cardinality({c \in DOMAIN db.city :
                      CityResolves(db.city[c].city, Arg(1).country)}) > 5

-----------------------------------------------------------------------------
(* C1 as stated: on every dataset run_query2 returns at most 3 rows sorted *)
(* descending by personCounts, and the per-country counts before the LIMIT *)
(* sum to the number of persons whose age is in [age_lower, age_upper].    *)
RECURSIVE SumCounts(_)
SumCounts(G) ==
    IF G = {} THEN 0
    ELSE LET g == CHOOSE x \in G : TRUE IN g.personCounts + SumCounts(G \ {g})

PersonsInRange(lo, hi) ==
    {p \in DOMAIN db.person : db.person[p].age >= lo /\ db.person[p].age <= hi}

Query2TopThree ==
    CallReturned(1)
    => /\ Len(Ret(1)) <= 3
       /\ \A i \in DOMAIN Ret(1) : \A j \in DOMAIN Ret(1) :
             i < j => Ret(1)[i].personCounts >= Ret(1)[j].personCounts

Query2CountsSum ==
    SumCounts(Query2Groups(db, Arg(1).age_lower, Arg(1).age_upper))
        = Cardinality(PersonsInRange(Arg(1).age_lower, Arg(1).age_upper))

(* C1 as stated: at most 3 rows, sorted descending, and the counts sum to  *)
(* the number of persons in the age range, on every dataset.               *)
Query2CountsEveryPerson ==
    (Called(1) /\ calls[1].q = 2 /\ calls[1].o.exc # "DriverError")
    => Query2TopThree /\ Query2CountsSum

(* C1 as amended: the counts sum to the number of persons in the age range *)
(* on the datasets where every person lives in exactly one city and        *)
(* exactly one path of one or two relationships leads from every such city *)
(* to a Country node; the rows are at most 3 and sorted on every dataset.  *)
RelsFrom(a) == {e \in DOMAIN db.rels : db.rels[e].src = a}

PathsToCountry(c) ==
    Cardinality({e \in RelsFrom(c) : db.rels[e].dst[1] = "Country"})
    + Cardinality(UNION {{<<e1, e2>> : e2 \in {e \in RelsFrom(db.rels[e1].dst) :
                                                  /\ e # e1
                                                  /\ db.rels[e].dst[1] = "Country"}} :
                           e1 \in RelsFrom(c)})

Hierarchical ==
    \A p \in DOMAIN db.person :
        LET homes == {r \in DOMAIN db.rels :
                        /\ db.rels[r].type = "LIVES_IN"
                        /\ db.rels[r].src = <<"Person", p>>}
        IN  /\ Cardinality(homes) = 1
            /\ \A r \in homes : /\ db.rels[r].dst[1] = "City"
                                /\ PathsToCountry(db.rels[r].dst) = 1

(* C1 as amended: at most 3 rows, sorted descending; on hierarchical       *)
(* datasets the counts sum to the number of persons in the age range.      *)
Query2CountsPersonsOfHierarchy ==
    (Called(1) /\ calls[1].q = 2 /\ calls[1].o.exc # "DriverError")
    => /\ Query2TopThree
       /\ Hierarchical => Query2CountsSum

(* C1 witness: a hierarchical dataset with more than 3 countries counted,  *)
(* 3 rows returned, and persons inside and outside the age range.          *)
Query2CountsPersonsOfHierarchyWitness ==
    /\ CallReturned(1) /\ calls[1].q = 2
    /\ Hierarchical
    /\ Len(Ret(1)) = 3
    /\ Cardinality(Query2Groups(db, Arg(1).age_lower, Arg(1).age_upper)) > 3
    /\ Cardinality(PersonsInRange(Arg(1).age_lower, Arg(1).age_upper)) > 4
    /\ Cardinality(DOMAIN db.person)
         > Cardinality(PersonsInRange(Arg(1).age_lower, Arg(1).age_upper))

-----------------------------------------------------------------------------
(* C2: unless the driver fails, run_query4 returns exactly one row when at *)
(* least one person matches the filter and a zero-row result when none     *)
(* does, and the returned numPersons is at least the number of matching    *)
(* persons of every state of the country.                                  *)
MatchingPersons(s, a) ==
    {p \in DOMAIN db.person :
        /\ db.person[p].age >= a.age_lower
        /\ db.person[p].age <= a.age_upper
        /\ db.state[s].country = a.country
        /\ \E r1 \in DOMAIN db.rels : \E r2 \in DOMAIN db.rels :
              /\ db.rels[r1] = Rel("LIVES_IN", <<"Person", p>>, db.rels[r2].src)
              /\ db.rels[r2].type = "CITY_IN"
              /\ db.rels[r2].src[1] = "City"
              /\ db.rels[r2].dst = <<"State", s>>
        /\ \E r3 \in DOMAIN db.rels : \E i \in DOMAIN db.interest :
              /\ db.rels[r3] = Rel("HAS_INTEREST", <<"Person", p>>, <<"Interest", i>>)
              /\ tolower(db.interest[i].interest) = tolower(a.interest)}

SomeoneMatches(a) == \E s \in DOMAIN db.state : MatchingPersons(s, a) # {}

Query4RowIsMaximum ==
    /\ SomeoneMatches(Arg(1)) => Len(Ret(1)) = 1
    /\ ~SomeoneMatches(Arg(1)) => Len(Ret(1)) = 0
    /\ \A i \in DOMAIN Ret(1) : \A s \in DOMAIN db.state :
          Ret(1)[i].numPersons >= Cardinality(MatchingPersons(s, Arg(1)))

(* C2: one row when someone matches, a zero-row result when no one does,   *)
(* and the row's numPersons is the maximum over the states.                *)
Query4OneRowOrNone ==
    (Called(1) /\ calls[1].q = 4 /\ calls[1].o.exc # "DriverError")
    => CallReturned(1) /\ Query4RowIsMaximum

(* The part of C2 that holds: whenever run_query4 returns, its result is   *)
(* as C2 says.                                                             *)
Query4WhenReturned ==
    (CallReturned(1) /\ calls[1].q = 4) => Query4RowIsMaximum

-----------------------------------------------------------------------------
(* C6 as stated: two calls of one query function with identical arguments  *)
(* on an unchanged dataset return identical results.                       *)
SameCall(i, j) ==
    /\ CallReturned(i) /\ CallReturned(j)
    /\ calls[i].q = calls[j].q
    /\ Arg(i) = Arg(j)

(* C6 as stated: identical arguments, identical results. *)
IdenticalResults ==
    \A i \in DOMAIN calls : \A j \in DOMAIN calls :
        SameCall(i, j) => Ret(i) = Ret(j)

(* C6 as amended: the two results have the same number of rows and the     *)
(* same value of the ordering key (averageAge, personCounts, numPersons)   *)
(* row by row, and they are identical whenever no two groups of the query  *)
(* have the same ordering key, and always for queries 3 and 5.             *)
OrderKey(q, row) ==
    CASE q = 1 -> row.averageAge
      [] q = 2 -> row.personCounts
      [] q = 4 -> row.numPersons
      [] OTHER -> row

GroupsOf(q, a) ==
    CASE q = 1 -> Query1Groups(db, a.country)
      [] q = 2 -> Query2Groups(db, a.age_lower, a.age_upper)
      [] q = 4 -> Query4Groups(db, a.country, a.age_lower, a.age_upper, a.interest)
      [] OTHER -> {}

NoTies(q, a) ==
    \A x \in GroupsOf(q, a) : \A y \in GroupsOf(q, a) :
        x # y => OrderKey(q, x) # OrderKey(q, y)

(* C6 as amended: same length and ordering keys; identical without ties.   *)
IdenticalUpToTies ==
    \A i \in DOMAIN calls : \A j \in DOMAIN calls :
        SameCall(i, j)
        => /\ Len(Ret(i)) = Len(Ret(j))
           /\ \A k \in DOMAIN Ret(i) :
                 OrderKey(calls[i].q, Ret(i)[k]) = OrderKey(calls[i].q, Ret(j)[k])
           /\ NoTies(calls[i].q, Arg(i)) => Ret(i) = Ret(j)

(* C6 witness: query 1 called twice, two cities with different average    *)
(* ages, the same two rows both times.                                     *)
IdenticalUpToTiesWitness ==
    /\ SameCall(1, 2)
    /\ calls[1].q = 1
    /\ Cardinality(GroupsOf(1, Arg(1))) = 2
    /\ NoTies(1, Arg(1))
    /\ Len(Ret(1)) = 2
    /\ Ret(1) = Ret(2)

-----------------------------------------------------------------------------
(* Shorthands on the event log of main. *)
Positions(e) == {i \in DOMAIN events : events[i].e = e}
QueryEvents == Positions("query")
Finished == pc = "done"

-----------------------------------------------------------------------------
(* C7: main acquires the driver and the session at most once each (exactly *)
(* once when main gets past their acquisition), holds neither when it has  *)
(* ended, whether query 5 returned or a query or an acquisition raised;    *)
(* it releases the session before the driver, and issues no query before   *)
(* the session is acquired or after it is released.                        *)
ResourcesScoped ==
    /\ Cardinality(Positions("driver.acquire")) <= 1
    /\ Cardinality(Positions("session.acquire")) <= 1
    /\ Cardinality(Positions("driver.release")) = (IF driver = "closed" THEN 1 ELSE 0)
    /\ Cardinality(Positions("session.release")) = (IF session = "closed" THEN 1 ELSE 0)
    /\ (driver # "none") = (Positions("driver.acquire") # {})
    /\ (session # "none") = (Positions("session.acquire") # {})
    /\ Finished => driver # "open" /\ session # "open"
    /\ (Finished /\ QueryEvents # {}) => driver = "closed" /\ session = "closed"
    /\ (Finished /\ exc = "none") => Cardinality(QueryEvents) = 5
    /\ \A s \in Positions("session.release") : \A d \in Positions("driver.release") :
          s < d
    /\ session = "open" => driver = "open"
    /\ \A i \in QueryEvents :
          /\ \E a \in Positions("session.acquire") : a < i
          /\ \A r \in Positions("session.release") : i < r

(* C7 witness: query 3 raised and main ended with both resources closed.  *)
ResourcesScopedWitness ==
    /\ Finished
    /\ exc = "DriverError"
    /\ Cardinality(QueryEvents) = 3
    /\ driver = "closed"
    /\ session = "closed"

-----------------------------------------------------------------------------
(* C8: main issues the queries in the order 1, 2, 3, 4, 5, each at most    *)
(* once and each only after the one before it has returned; when query k   *)
(* raises, no further query is issued, query k is not issued again, and    *)
(* main ends with that exception.                                          *)
QueriesInOrder ==
    /\ Len(calls) <= 5
    /\ Cardinality(QueryEvents) = Len(calls)
    /\ \A i \in DOMAIN calls :
          /\ calls[i].q = i
          /\ i < Len(calls) => Returned(calls[i].o)
          /\ ~Returned(calls[i].o)
               => /\ exc = calls[i].o.exc
                  /\ pc \notin Range(QueryPc)
    /\ \A i \in QueryEvents : \A j \in QueryEvents :
          i < j => events[i].k < events[j].k
    /\ (Finished /\ exc = "none")
          => Len(calls) = 5 /\ \A i \in DOMAIN calls : Returned(calls[i].o)

(* C8 witness: query 4 raised, query 5 was never issued, main ended with   *)
(* the exception.                                                          *)
QueriesInOrderWitness ==
    /\ Finished
    /\ Len(calls) = 4
    /\ calls[4].o.exc = "NoDataError"
    /\ exc = "NoDataError"

-----------------------------------------------------------------------------
(* C9: a run of main that completes has printed, for each query 1..5 in    *)
(* turn, its Cypher text, its SQL equivalent and its result summary, and   *)
(* then the timer's line.                                                  *)
AllPrinted ==
    <<<<"cypher", 1>>, <<"sql", 1>>, <<"summary", 1>>,
      <<"cypher", 2>>, <<"sql", 2>>, <<"summary", 2>>,
      <<"cypher", 3>>, <<"sql", 3>>, <<"summary", 3>>,
      <<"cypher", 4>>, <<"sql", 4>>, <<"summary", 4>>,
      <<"cypher", 5>>, <<"sql", 5>>, <<"summary", 5>>,
      <<"timer", 0>>>>

(* C9: what a completed run of main has printed. *)
EveryQueryPrintsSql == (Finished /\ exc = "none") => out = AllPrinted

=============================================================================
